---- MODULE Spec2Model ----
(***************************************************************************)
(* A model of the dyslink command line client (cmd/dyslink.go): global     *)
(* flag parsing, the command registry and dispatcher of main, the          *)
(* state-mutation handlers, the query handlers reading the callback        *)
(* channel, and the reflection driven renderer.                            *)
(*                                                                         *)
(* Go strings are sequences of one-character strings, so that strconv.Atoi *)
(* and strconv.Itoa are computed character by character.  The command name *)
(* args[0] is kept apart (cmdin) from the handler's arguments args[1:]     *)
(* (cmdargs).                                                              *)
(***************************************************************************)
EXTENDS Integers, Sequences, FiniteSets, TLC

VARIABLES
    gflags,     \* outcome of flag.Parse on the global flags: "ok", "bad", "help"
    model,      \* -model
    host,       \* -address
    cmdin,      \* args[0], or NoCmd when flag.Args() is empty
    cmdargs,    \* args[1:]
    pc,         \* position of the main goroutine, "exited" or "killed" at the end
    exitCode,   \* the code handed to os.Exit once pc = "exited" (0 before)
    handler,    \* the handler main invoked, or NoCmd
    calls,      \* device-session operations issued so far, in order
    chan,       \* the unbuffered callback channel: the message a sender offers
    sent,       \* number of messages the device session offered so far
    received,   \* messages the handler took from the channel, in order
    num_msg,    \* getState's loop counter
    stdout,     \* what was rendered to standard output, in order
    stderr,     \* what was written to the error stream, in order
    timer,      \* monitor's background goroutine: "off" or "running"
    ticks,      \* number of times the timer goroutine woke up
    rin,        \* renderer harness: the message handed to the renderer
    rout        \* renderer harness: the lines it printed

vars == <<gflags, model, host, cmdin, cmdargs, pc, exitCode, handler, calls,
          chan, sent, received, num_msg, stdout, stderr, timer, ticks, rin, rout>>

-----------------------------------------------------------------------------
(* Bounds of the model. *)

\* longest numeric argument string explored
MaxArgLen == 3
\* most bootstrap sub-flag tokens explored
MaxTokens == 3
\* most messages the device session offers on the callback channel
MaxMsgs == 3
\* most wake-ups of monitor's timer goroutine
MaxTicks == 2
\* most fields of a rendered struct
MaxFields == 2
\* longest sensor reading explored
MaxReadingLen == 2

-----------------------------------------------------------------------------
(* Strings and strconv. *)

Digits == <<"0", "1", "2", "3", "4", "5", "6", "7", "8", "9">>

IsDigit(c) == \E i \in 1..10 : Digits[i] = c

DigitVal(c) == (CHOOSE i \in 1..10 : Digits[i] = c) - 1

RECURSIVE ParseDigits(_, _)
ParseDigits(s, acc) ==
    IF s = <<>> THEN acc
    ELSE ParseDigits(Tail(s), acc * 10 + DigitVal(Head(s)))

\* strconv.Atoi: an optional sign, then one or more decimal digits; on a
\* syntax error the value is 0 and err is set.
Atoi(s) ==
    LET signed == s # <<>> /\ Head(s) \in {"+", "-"}
        body   == IF signed THEN Tail(s) ELSE s
        okSyn  == body # <<>> /\ \A i \in 1..Len(body) : IsDigit(body[i])
        mag    == IF okSyn THEN ParseDigits(body, 0) ELSE 0
    IN  [err |-> ~okSyn,
         val |-> IF signed /\ Head(s) = "-" THEN 0 - mag ELSE mag]

RECURSIVE UDigits(_)
UDigits(n) ==
    IF n < 10 THEN <<Digits[n + 1]>>
    ELSE UDigits(n \div 10) \o <<Digits[(n % 10) + 1]>>

\* strconv.Itoa
Itoa(n) == IF n < 0 THEN <<"-">> \o UDigits(0 - n) ELSE UDigits(n)

-----------------------------------------------------------------------------
(* The dyslink package: constants and conversions the client uses. *)

TypeModelN475 == <<"4", "7", "5">>
TypeModelN469 == <<"4", "6", "9">>
TypeModelN455 == <<"4", "5", "5">>

FanModeOn   == <<"F", "A", "N">>
FanModeOff  == <<"O", "F", "F">>
FanModeAuto == <<"A", "U", "T", "O">>
OscillateOn  == <<"O", "N">>
OscillateOff == <<"O", "F", "F">>
StandbyMonitorOn  == <<"O", "N">>
StandbyMonitorOff == <<"O", "F", "F">>
FocusedModeOn  == <<"O", "N">>
FocusedModeOff == <<"O", "F", "F">>

\* Fahrenheit to the device scale (tenths of a kelvin).
ConvertTempFromFahr(f) == ((100 * f + 45967) * 50) \div 900

\* The device scale (tenths of a kelvin) to Fahrenheit.
ConvertTempToFahr(k) ==
    LET x == 18 * k - 45967 IN IF x >= 0 THEN x \div 100 ELSE 0 - ((0 - x) \div 100)

HeatOff == <<"O", "F", "F">>
HeatOn  == <<"H", "E", "A", "T">>
ResetFilterMark == <<"R", "S", "T", "F">>

FanStateFields ==
    {"FanMode", "FanSpeed", "Oscillate", "StandbyMonitoring", "FocusedMode",
     "HeatMode", "HeatTarget", "ResetFilter"}

\* &dyslink.FanState{}: every field at its zero value
ZeroFanState == [f \in FanStateFields |-> <<>>]

\* &dyslink.FanState{field: value}
FanStateWith(field, value) == [ZeroFanState EXCEPT ![field] = value]

-----------------------------------------------------------------------------
(* The command registry. *)

variadic == -1

NoCmd == "(none)"

cmds ==
    [c \in {"discover", "bootstrap", "set-fan-mode", "set-speed", "set-oscillate",
            "set-monitor", "set-temp", "set-focused-mode", "get-current-state",
            "monitor", "reset-filter"} |->
        CASE c = "discover"  -> [nargs |-> 0, connect |-> FALSE]
          [] c = "bootstrap" -> [nargs |-> variadic, connect |-> TRUE]
          [] c \in {"set-fan-mode", "set-speed", "set-oscillate", "set-monitor",
                    "set-temp", "set-focused-mode"}
                             -> [nargs |-> 1, connect |-> TRUE]
          [] OTHER           -> [nargs |-> 0, connect |-> TRUE]]

CmdNames == DOMAIN cmds

\* faulty variant: any model passes
validModel_mutant(m) == TRUE

validModel(m) == m = TypeModelN475 \/ m = TypeModelN469 \/ m = TypeModelN455

-----------------------------------------------------------------------------
(* Command lines explored. *)

NumAlphabet == {"0", "1", "2", "3", "9", "-", "x"}

Strings(alphabet, n) == UNION {[1..k -> alphabet] : k \in 0..n}

NumStrings == Strings(NumAlphabet, MaxArgLen)

EnumStrings ==
    {FanModeOn, FanModeOff, FanModeAuto, OscillateOn, <<"o", "n">>, <<"O", "N", "N">>}

ArgStrings == NumStrings \cup EnumStrings

SingleArgCmds == {c \in CmdNames : cmds[c].nargs = 1}

FlagSsid == <<"-", "s", "s", "i", "d">>
FlagKeyEq == <<"-", "-", "k", "e", "y", "=">>
BootTokens ==
    {FlagSsid, FlagKeyEq \o <<"k">>, FlagKeyEq, <<"-", "h">>, <<"-", "x">>,
     <<"n">>, <<>>}

Models == {TypeModelN475, TypeModelN469, TypeModelN455, <<>>, <<"4", "7", "6">>}

Hosts == {<<>>, <<"h">>}

\* flag.Args(): the command name and what follows it
ArgLists ==
    {[cmd |-> c, rest |-> <<>>] : c \in CmdNames \cup {NoCmd, "bogus"}}
    \cup {[cmd |-> c, rest |-> <<a>>] : c \in SingleArgCmds, a \in ArgStrings}
    \cup {[cmd |-> c, rest |-> <<a, <<"9">>>>] :
              c \in SingleArgCmds \cup {"reset-filter", "discover"},
              a \in {<<"5">>, <<>>, OscillateOn}}
    \cup {[cmd |-> "bootstrap", rest |-> r] :
              r \in UNION {[1..k -> BootTokens] : k \in 1..MaxTokens}}

-----------------------------------------------------------------------------
(* Process exit and device-session calls. *)

\* os.Exit(code) after writing errs to the error stream
Exit(code, errs) ==
    /\ pc' = "exited"
    /\ exitCode' = code
    /\ stderr' = stderr \o errs

\* main returns: the process ends with code 0
Return == Exit(0, <<>>)

\* faulty variant: errors exit with the code of a usage error
handleError_mutant(msg) == Exit(2, <<msg>>)

\* handleError(err) for a non-nil err
handleError(msg) == Exit(1, <<msg>>)

Call(op, by, err, state) == [op |-> op, by |-> by, err |-> err, state |-> state]

\* handleError(client.client.SetState(s)) as a handler's last statement
SubmitState(s) ==
    \E err \in BOOLEAN :
        /\ calls' = Append(calls, Call("SetState", "main", err, s))
        /\ IF err THEN handleError("SetState failed") ELSE Return

-----------------------------------------------------------------------------
(* main *)

\* the codes flag.ExitOnError ends the process with on -h/-help: 0 since
\* Go 1.15, 2 before
HelpExitCodes == {0, 2}

\* faulty variant: off by one, a missing argument passes
tooFewArgs_mutant(n, nargs) == n + 1 < nargs

\* len(args)-1 < cmd.nargs, for n arguments after the command name
tooFewArgs(n, nargs) == n < nargs

\* main, from flag.Parse to the argument count check
MainParse ==
    /\ pc = "main"
    /\ UNCHANGED <<gflags, model, host, cmdin, cmdargs, handler, calls, chan, sent,
                   received, num_msg, stdout, timer, ticks, rin, rout>>
    /\ CASE gflags = "bad"  -> Exit(2, <<"flag: bad global flag">>)
         [] gflags = "help" -> \E c \in HelpExitCodes : Exit(c, <<"usage">>)
         [] OTHER ->
              IF cmdin = NoCmd THEN Exit(1, <<"Must supply command">>)
              ELSE IF cmdin \notin CmdNames THEN Exit(1, <<"Invalid command">>)
              ELSE IF tooFewArgs(Len(cmdargs), cmds[cmdin].nargs)
                   THEN Exit(1, <<"Invalid number of arguements">>)
              ELSE pc' = "connect" /\ UNCHANGED <<exitCode, stderr>>

\* main, from NewClient to the call of the handler
MainConnect ==
    /\ pc = "connect"
    /\ UNCHANGED <<gflags, model, host, cmdin, cmdargs, chan, sent, received,
                   num_msg, stdout, timer, ticks, rin, rout>>
    /\ IF cmds[cmdin].connect
       THEN IF ~validModel(model)
            THEN Exit(1, <<"Must supply model type">>) /\ UNCHANGED <<handler, calls>>
            ELSE IF host = <<>>
            THEN Exit(1, <<"Must supply address">>) /\ UNCHANGED <<handler, calls>>
            ELSE \E err \in BOOLEAN :
                    /\ calls' = Append(calls, Call("Connect", "main", err, ZeroFanState))
                    /\ IF err
                       THEN handleError("Connect failed") /\ UNCHANGED handler
                       ELSE /\ pc' = "handler"
                            /\ handler' = cmdin
                            /\ UNCHANGED <<exitCode, stderr>>
       ELSE /\ pc' = "handler"
            /\ handler' = cmdin
            /\ UNCHANGED <<exitCode, stderr, calls>>

\* what a handler leaves alone besides pc, exitCode, stderr and calls
HandlerFrame ==
    UNCHANGED <<gflags, model, host, cmdin, cmdargs, handler, chan, sent, received,
                num_msg, stdout, timer, ticks, rin, rout>>

InHandler(name) == pc = "handler" /\ handler = name

-----------------------------------------------------------------------------
(* State-mutation handlers. *)

resetFilter ==
    /\ InHandler("reset-filter")
    /\ HandlerFrame
    /\ SubmitState(FanStateWith("ResetFilter", ResetFilterMark))

\* a handler whose argument must be one of a fixed set of strings
setEnum(field, legal, what) ==
    LET arg == cmdargs[1] IN
    IF arg \notin legal
    THEN handleError(what) /\ UNCHANGED calls
    ELSE SubmitState(FanStateWith(field, arg))

FanModes == {FanModeOn, FanModeOff, FanModeAuto}

setFanMode ==
    /\ InHandler("set-fan-mode")
    /\ HandlerFrame
    /\ setEnum("FanMode", FanModes, "Invalid Fan mode")

\* faulty variant: speed 0 passes
badSpeed_mutant(sval) == sval < 0 \/ sval > 10

\* sval < 1 || sval > 10
badSpeed(sval) == sval < 1 \/ sval > 10

setSpeed ==
    /\ InHandler("set-speed")
    /\ HandlerFrame
    /\ LET speed == cmdargs[1]
           a == Atoi(speed)
       IN  IF a.err THEN handleError("strconv.Atoi: invalid syntax") /\ UNCHANGED calls
           ELSE IF badSpeed(a.val)
           THEN handleError("Invalid fan speed") /\ UNCHANGED calls
           ELSE SubmitState(FanStateWith("FanSpeed", speed))

OscillateStates == {OscillateOn, OscillateOff}

setOscillate ==
    /\ InHandler("set-oscillate")
    /\ HandlerFrame
    /\ setEnum("Oscillate", OscillateStates, "Invalid oscillation state")

MonitorStates == {StandbyMonitorOn, StandbyMonitorOff}

setMonitor ==
    /\ InHandler("set-monitor")
    /\ HandlerFrame
    /\ setEnum("StandbyMonitoring", MonitorStates, "Invalid monitor state")

FocusedModes == {FocusedModeOn, FocusedModeOff}

setFocusedMode ==
    /\ InHandler("set-focused-mode")
    /\ HandlerFrame
    /\ setEnum("FocusedMode", FocusedModes, "Invalid focused mode")

\* sval < 33 || sval > 99
badTemp(sval) == sval < 33 \/ sval > 99

\* faulty variant: turning the heat off also sends a target
heatOffState_mutant ==
    [ZeroFanState EXCEPT !["HeatMode"] = HeatOff,
                         !["HeatTarget"] = Itoa(ConvertTempFromFahr(0))]

\* &dyslink.FanState{HeatMode: dyslink.HeatModeOff}
heatOffState == FanStateWith("HeatMode", HeatOff)

\* faulty variant: the target is sent in Fahrenheit
heatOnState_mutant(sval) ==
    [ZeroFanState EXCEPT !["HeatMode"] = HeatOn, !["HeatTarget"] = Itoa(sval)]

heatOnState(sval) ==
    [ZeroFanState EXCEPT !["HeatMode"] = HeatOn,
                         !["HeatTarget"] = Itoa(ConvertTempFromFahr(sval))]

setTemp ==
    /\ InHandler("set-temp")
    /\ HandlerFrame
    /\ LET temp == cmdargs[1]
           a == Atoi(temp)
       IN  IF a.err THEN handleError("strconv.Atoi: invalid syntax") /\ UNCHANGED calls
           ELSE IF a.val = 0 THEN SubmitState(heatOffState)
           ELSE IF badTemp(a.val)
           THEN handleError("Invalid fan temp") /\ UNCHANGED calls
           ELSE SubmitState(heatOnState(a.val))

-----------------------------------------------------------------------------
(* The renderer.  A reflect.Value is [kind, s, n, b]: s is the text of a   *)
(* string, n the number of a numeric kind or the length of a collection, b *)
(* the value of a bool, or IsNil() of a pointer or interface.  A struct is *)
(* the sequence of its fields [name, v] in declaration order.              *)

Value(kind, str, num, flag) == [kind |-> kind, s |-> str, n |-> num, b |-> flag]

StrV(str) == Value("string", str, 0, FALSE)

Field(name, v) == [name |-> name, v |-> v]

\* faulty variant: the String kind is missing from the first case
isEmptyValue_mutant(v) ==
    CASE v.kind \in {"array", "map", "slice", "string"} -> v.kind # "string" /\ v.n = 0
      [] v.kind = "bool" -> ~v.b
      [] v.kind \in {"int", "uint", "float"} -> v.n = 0
      [] v.kind \in {"interface", "ptr"} -> v.b
      [] OTHER -> FALSE

isEmptyValue(v) ==
    CASE v.kind \in {"array", "map", "slice"} -> v.n = 0
      [] v.kind = "string" -> Len(v.s) = 0
      [] v.kind = "bool" -> ~v.b
      [] v.kind \in {"int", "uint", "float"} -> v.n = 0
      [] v.kind \in {"interface", "ptr"} -> v.b
      [] OTHER -> FALSE

\* the raw counter a full filter life reports
MaxFilterLife == 4300

\* math.Round(a / b) for b > 0: to the nearest integer, halves away from zero
Round(a, b) ==
    IF a >= 0 THEN (2 * a + b) \div (2 * b) ELSE 0 - ((2 * (0 - a) + b) \div (2 * b))

\* faulty variant: truncates instead of rounding
filterLifePercent_mutant(v) == (v * 100) \div MaxFilterLife

\* math.Round((float64(v)/4300)*100)
filterLifePercent(v) == Round(v * 100, MaxFilterLife)

QualityHigh   == <<"0", "0", "0", "1">>
QualityNormal == <<"0", "0", "0", "3">>
QualityLow    == <<"0", "0", "0", "4">>

Line(name, fmt, v, n) == [name |-> name, fmt |-> fmt, v |-> v, n |-> n]

\* fmt.Printf("%s: %v\n", sfield.Name, field.Interface())
RawLine(f) == Line(f.name, "raw", f.v, 0)

\* the line printStruct prints for a field that is not empty
fieldLine(f) ==
    LET a == Atoi(f.v.s) IN
    CASE f.name \in {"Temperature", "HeatTarget"} ->
            IF a.err THEN RawLine(f)
            ELSE Line(f.name, "degF", f.v, ConvertTempToFahr(a.val))
      [] f.name = "Humidity" ->
            IF a.err THEN RawLine(f) ELSE Line(f.name, "percent", f.v, a.val)
      [] f.name = "FilterLife" ->
            IF a.err THEN RawLine(f)
            ELSE Line(f.name, "percent", f.v, filterLifePercent(a.val))
      [] f.name = "QualityTarget" ->
            Line(f.name, "raw",
                 StrV(CASE f.v.s = QualityHigh   -> <<"H", "i", "g", "h">>
                        [] f.v.s = QualityNormal -> <<"N", "o", "r", "m", "a", "l">>
                        [] f.v.s = QualityLow    -> <<"L", "o", "w">>
                        [] OTHER -> f.v.s), 0)
      [] f.name = "UnknownVact" -> Line("VOC", "raw", f.v, 0)
      [] OTHER -> RawLine(f)

RECURSIVE printStructFrom(_, _)
printStructFrom(v, i) ==
    IF i > Len(v) THEN <<>>
    ELSE IF isEmptyValue(v[i].v) THEN printStructFrom(v, i + 1)
    ELSE <<fieldLine(v[i])>> \o printStructFrom(v, i + 1)

\* the lines printStruct prints, in order
printStruct(v) == printStructFrom(v, 1)

\* state.<name> of a struct whose fields are strings
FieldString(state, name) ==
    LET idx == {i \in 1..Len(state) : state[i].name = name}
    IN  IF idx = {} THEN <<>> ELSE state[CHOOSE i \in idx : TRUE].v.s

Max(a, b) == IF a >= b THEN a ELSE b

\* faulty variant: the first threshold is strict
qualityOf_mutant(est) ==
    CASE est < 3  -> "good"
      [] est <= 6 -> "fair"
      [] est <= 8 -> "poor"
      [] OTHER    -> "very poor"

\* the switch of printAirQualityEstimate
qualityOf(est) ==
    CASE est <= 3 -> "good"
      [] est <= 6 -> "fair"
      [] est <= 8 -> "poor"
      [] OTHER    -> "very poor"

\* the label printAirQualityEstimate prints
printAirQualityEstimate(state) ==
    LET voc  == Atoi(FieldString(state, "UnknownVact")).val
        part == Atoi(FieldString(state, "Particle")).val
        est  == Max(voc, part)
    IN  qualityOf(est)

Rendered(head, lines, quality) == [head |-> head, lines |-> lines, quality |-> quality]

printProductState(state) == Rendered("Product State:", printStruct(state), <<>>)

printEnvironmentState(state) ==
    Rendered("Environment State:", printStruct(state), <<printAirQualityEstimate(state)>>)

printMessage(msg) == Rendered("Message", printStruct(msg), <<>>)

\* a message on the callback channel: msg.Message is a pointer to a struct of
\* the named type, msg.Error is nil or not
Message(type, err, body) == [type |-> type, err |-> err, body |-> body]

printState(msg) ==
    CASE msg.type = "ProductState"     -> printProductState(msg.body)
      [] msg.type = "EnvironmentState" -> printEnvironmentState(msg.body)
      [] OTHER                         -> printMessage(msg.body)

\* *dyslink.EnvironmentState
EnvironmentState(tact, hact, pact, vact) ==
    <<Field("Temperature", StrV(tact)), Field("Humidity", StrV(hact)),
      Field("Particle", StrV(pact)), Field("UnknownVact", StrV(vact))>>

-----------------------------------------------------------------------------
(* bootstrap *)

SsidName == <<"s", "s", "i", "d">>
KeyName  == <<"k", "e", "y">>
HelpNames == {<<"h">>, <<"h", "e", "l", "p">>}

ParseResult(res, ssid, key) == [res |-> res, ssid |-> ssid, key |-> key]

\* fset.Parse(args) for the flag set of bootstrap (two string flags, ssid and
\* key): flag.FlagSet.parseOne, token after token.  res is "ok", "error" (a
\* malformed or unknown flag) or "help".
RECURSIVE fsetParse(_, _, _)
fsetParse(args, ssid, key) ==
    IF args = <<>> THEN ParseResult("ok", ssid, key)
    ELSE
    LET s == Head(args) IN
    IF Len(s) < 2 \/ s[1] # "-" THEN ParseResult("ok", ssid, key)
    ELSE
    LET numMinuses == IF s[2] = "-" THEN 2 ELSE 1 IN
    IF numMinuses = 2 /\ Len(s) = 2 THEN ParseResult("ok", ssid, key)
    ELSE
    LET name0 == SubSeq(s, numMinuses + 1, Len(s)) IN
    IF name0 = <<>> \/ name0[1] \in {"-", "="} THEN ParseResult("error", ssid, key)
    ELSE
    LET eqs    == {i \in 2..Len(name0) : name0[i] = "="}
        hasEq  == eqs # {}
        at     == CHOOSE i \in eqs : \A j \in eqs : i <= j
        name   == IF hasEq THEN SubSeq(name0, 1, at - 1) ELSE name0
        rest   == Tail(args)
    IN
    IF name \notin {SsidName, KeyName}
    THEN ParseResult(IF name \in HelpNames THEN "help" ELSE "error", ssid, key)
    ELSE IF ~hasEq /\ rest = <<>> THEN ParseResult("error", ssid, key)
    ELSE
    LET value == IF hasEq THEN SubSeq(name0, at + 1, Len(name0)) ELSE Head(rest)
        rest2 == IF hasEq THEN rest ELSE Tail(rest)
    IN  fsetParse(rest2, IF name = SsidName THEN value ELSE ssid,
                         IF name = KeyName THEN value ELSE key)

bootstrap ==
    /\ InHandler("bootstrap")
    /\ HandlerFrame
    /\ LET p == fsetParse(cmdargs, <<>>, <<>>) IN
       CASE p.res = "error" ->
                Exit(2, <<"flag: bad bootstrap flag">>) /\ UNCHANGED calls
         [] p.res = "help" ->
                (\E c \in HelpExitCodes : Exit(c, <<"usage">>)) /\ UNCHANGED calls
         [] OTHER ->
                IF p.ssid = <<>> \/ p.key = <<>>
                THEN Exit(2, <<"usage">>) /\ UNCHANGED calls
                ELSE \E err \in BOOLEAN :
                        /\ calls' = Append(calls,
                                      Call("WifiBootstrap", "main", err, ZeroFanState))
                        /\ Return

-----------------------------------------------------------------------------
(* discover *)

discover ==
    /\ InHandler("discover")
    /\ UNCHANGED <<gflags, model, host, cmdin, cmdargs, handler, calls, chan, sent,
                   received, num_msg, timer, ticks, rin, rout>>
    /\ \E outcome \in {"NewResolver failed", "Browse failed", "ok"} :
          IF outcome # "ok"
          THEN handleError(outcome) /\ UNCHANGED stdout
          ELSE \E found \in {<<>>, <<Rendered("Name:", <<>>, <<>>)>>} :
                  /\ stdout' = stdout \o found
                  /\ Return

-----------------------------------------------------------------------------
(* The device session's side of the callback channel. *)

SampleProduct ==
    <<Field("FanMode", StrV(FanModeOn)), Field("FanSpeed", StrV(<<>>)),
      Field("FilterLife", StrV(<<"2", "1", "5", "0">>)),
      Field("QualityTarget", StrV(QualityNormal))>>

SampleEnvironment ==
    EnvironmentState(<<"2", "9", "3", "1">>, <<"4", "5">>, <<"0", "0", "0", "4">>, <<>>)

SampleOther ==
    <<Field("SerialNumber", StrV(<<"S", "N">>)), Field("Password", StrV(<<>>))>>

\* what the session may deliver: a state of either type, a message of
\* another type, or an error
Messages ==
    {Message("ProductState", FALSE, SampleProduct),
     Message("EnvironmentState", FALSE, SampleEnvironment),
     Message("DeviceCredentials", FALSE, SampleOther),
     Message("nil", TRUE, <<>>)}

Readers == {"get-current-state", "monitor"}

\* The session offers a message on the unbuffered channel and blocks until
\* it is taken.  Only the commands that read the channel are followed: under
\* the others the offer is never taken and changes nothing.
DeviceSend ==
    /\ pc \in {"handler", "getState_recv", "monitor_loop"}
    /\ handler \in Readers
    /\ chan = <<>>
    /\ sent < MaxMsgs
    /\ \E m \in Messages : chan' = <<m>>
    /\ sent' = sent + 1
    /\ UNCHANGED <<gflags, model, host, cmdin, cmdargs, pc, exitCode, handler, calls,
                   received, num_msg, stdout, stderr, timer, ticks, rin, rout>>

\* the user interrupts a process blocked on the channel
Kill ==
    /\ pc \in {"getState_recv", "monitor_loop"}
    /\ pc' = "killed"
    /\ UNCHANGED <<gflags, model, host, cmdin, cmdargs, exitCode, handler, calls,
                   chan, sent, received, num_msg, stdout, stderr, timer, ticks,
                   rin, rout>>

-----------------------------------------------------------------------------
(* Query handlers. *)

\* getState up to its first receive
getState_request ==
    /\ InHandler("get-current-state")
    /\ UNCHANGED <<gflags, model, host, cmdin, cmdargs, handler, chan, sent,
                   received, stdout, timer, ticks, rin, rout>>
    /\ \E err \in BOOLEAN :
        /\ calls' = Append(calls, Call("RequestCurrentState", "main", err, ZeroFanState))
        /\ IF err
           THEN handleError("RequestCurrentState failed") /\ UNCHANGED num_msg
           ELSE /\ pc' = "getState_recv"
                /\ num_msg' = 0
                /\ UNCHANGED <<exitCode, stderr>>

\* faulty variant: off by one, a third message is read
getStateMore_mutant(n) == n <= 2

\* num_msg < 2
getStateMore(n) == n < 2

\* faulty variant: the receive gives up when nothing is on offer
getState_recv_mutant ==
    /\ pc = "getState_recv"
    /\ IF chan = <<>>
       THEN /\ handleError("timed out")
            /\ UNCHANGED <<chan, received, num_msg, stdout>>
       ELSE LET msg == Head(chan) IN
            /\ chan' = <<>>
            /\ received' = Append(received, msg)
            /\ IF msg.err
               THEN handleError("message error") /\ UNCHANGED <<num_msg, stdout>>
               ELSE /\ stdout' = Append(stdout, printState(msg))
                    /\ num_msg' = num_msg + 1
                    /\ IF getStateMore(num_msg + 1)
                       THEN UNCHANGED <<pc, exitCode, stderr>>
                       ELSE Return
    /\ UNCHANGED <<gflags, model, host, cmdin, cmdargs, handler, calls, sent,
                   timer, ticks, rin, rout>>

\* one turn of getState's loop: receive, handleError, printState
getState_recv ==
    /\ pc = "getState_recv"
    /\ chan # <<>>
    /\ LET msg == Head(chan) IN
        /\ chan' = <<>>
        /\ received' = Append(received, msg)
        /\ IF msg.err
           THEN handleError("message error") /\ UNCHANGED <<num_msg, stdout>>
           ELSE /\ stdout' = Append(stdout, printState(msg))
                /\ num_msg' = num_msg + 1
                /\ IF getStateMore(num_msg + 1)
                   THEN UNCHANGED <<pc, exitCode, stderr>>
                   ELSE Return
    /\ UNCHANGED <<gflags, model, host, cmdin, cmdargs, handler, calls, sent,
                   timer, ticks, rin, rout>>

\* monitor starts its timer goroutine and enters its loop
monitor_start ==
    /\ InHandler("monitor")
    /\ timer' = "running"
    /\ pc' = "monitor_loop"
    /\ UNCHANGED <<gflags, model, host, cmdin, cmdargs, exitCode, handler, calls,
                   chan, sent, received, num_msg, stdout, stderr, ticks, rin, rout>>

\* faulty variant: a message error ends monitor as it ends getState
monitorOnError_mutant == handleError("message error")

\* monitor's branch for msg.Error != nil: log it and continue
monitorOnError ==
    /\ stderr' = Append(stderr, "error: message error")
    /\ UNCHANGED <<pc, exitCode>>

\* one turn of monitor's loop
monitor_recv ==
    /\ pc = "monitor_loop"
    /\ chan # <<>>
    /\ LET msg == Head(chan) IN
        /\ chan' = <<>>
        /\ received' = Append(received, msg)
        /\ IF msg.err
           THEN monitorOnError /\ UNCHANGED stdout
           ELSE /\ stdout' = Append(stdout, printState(msg))
                /\ UNCHANGED <<pc, exitCode, stderr>>
    /\ UNCHANGED <<gflags, model, host, cmdin, cmdargs, handler, calls,
                   sent, num_msg, timer, ticks, rin, rout>>

\* faulty variant: the timer goroutine waits for the answer to its request
\* and takes it off the channel itself
monitor_timer_mutant ==
    /\ timer = "running"
    /\ pc = "monitor_loop"
    /\ ticks < MaxTicks
    /\ ticks' = ticks + 1
    /\ \E err \in BOOLEAN :
        calls' = Append(calls, Call("RequestCurrentState", "timer", err, ZeroFanState))
    /\ chan' = <<>>
    /\ UNCHANGED <<gflags, model, host, cmdin, cmdargs, pc, exitCode, handler,
                   sent, received, num_msg, stdout, stderr, timer, rin, rout>>

\* one turn of the timer goroutine: sleep, then RequestCurrentState, whose
\* result is dropped
monitor_timer ==
    /\ timer = "running"
    /\ pc = "monitor_loop"
    /\ ticks < MaxTicks
    /\ ticks' = ticks + 1
    /\ \E err \in BOOLEAN :
        calls' = Append(calls, Call("RequestCurrentState", "timer", err, ZeroFanState))
    /\ UNCHANGED <<gflags, model, host, cmdin, cmdargs, pc, exitCode, handler, chan,
                   sent, received, num_msg, stdout, stderr, timer, rin, rout>>

-----------------------------------------------------------------------------

\* a command line whose global flags do not parse: model and address are
\* never looked at
BadFlagArgLists == {[cmd |-> "bootstrap", rest |-> <<>>], [cmd |-> NoCmd, rest |-> <<>>]}

Init ==
    /\ \/ /\ gflags = "ok"
          /\ model \in Models
          /\ host \in Hosts
          /\ \E a \in ArgLists : cmdin = a.cmd /\ cmdargs = a.rest
       \/ /\ gflags \in {"bad", "help"}
          /\ model = <<>>
          /\ host = <<>>
          /\ \E a \in BadFlagArgLists : cmdin = a.cmd /\ cmdargs = a.rest
    /\ pc = "main"
    /\ exitCode = 0
    /\ handler = NoCmd
    /\ calls = <<>>
    /\ chan = <<>>
    /\ sent = 0
    /\ received = <<>>
    /\ num_msg = 0
    /\ stdout = <<>>
    /\ stderr = <<>>
    /\ timer = "off"
    /\ ticks = 0
    /\ rin = <<>>
    /\ rout = <<>>

Next ==
    \/ MainParse
    \/ MainConnect
    \/ resetFilter
    \/ setFanMode
    \/ setSpeed
    \/ setOscillate
    \/ setMonitor
    \/ setFocusedMode
    \/ setTemp
    \/ bootstrap
    \/ discover
    \/ getState_request
    \/ getState_recv
    \/ monitor_start
    \/ monitor_recv
    \/ monitor_timer
    \/ DeviceSend
    \/ Kill

Spec == Init /\ [][Next]_vars

\* The program as the runtime schedules it and with a session that keeps
\* delivering: getState's receive with a message on offer is eventually
\* performed (the main goroutine is runnable as soon as a sender is ready),
\* and the session eventually offers its next message while a reader runs.
SpecFair ==
    /\ Init /\ [][Next]_vars
    /\ WF_vars(getState_recv)
    /\ WF_vars(DeviceSend)

-----------------------------------------------------------------------------
(* The renderer on its own: printState applied to one message. *)

ReadingAlphabet == {"0", "3", "4", "6", "7", "8", "9", "-"}

ReadingStrings == Strings(ReadingAlphabet, MaxReadingLen)

FilterLifeStrings ==
    {<<>>, <<"0">>, <<"2", "1">>, <<"2", "2">>, <<"4", "3">>, <<"2", "1", "5", "0">>,
     <<"4", "3", "0", "0">>, <<"4", "3", "2", "1">>, <<"8", "6", "0", "0">>,
     <<"x", "9">>, <<"-", "4", "3">>}

FieldUniverse ==
    {Field("FanMode", StrV(x)) : x \in {<<>>, FanModeOn}}
    \cup {Field("FilterLife", StrV(x)) : x \in FilterLifeStrings}
    \cup {Field("QualityTarget", StrV(x)) :
             x \in {<<>>, QualityHigh, QualityNormal, QualityLow, <<"0", "0", "0", "2">>}}
    \cup {Field("Humidity", StrV(x)) : x \in {<<>>, <<"4", "5">>, <<"x">>}}
    \cup {Field("Temperature", StrV(x)) : x \in {<<>>, <<"2", "9", "3", "1">>, HeatOff}}
    \cup {Field("UnknownVact", StrV(x)) : x \in {<<>>, <<"0", "0", "0", "4">>}}
    \cup {Field("Enabled", Value("bool", <<>>, 0, x)) : x \in BOOLEAN}
    \cup {Field("Count", Value(k, <<>>, x, FALSE)) :
             k \in {"int", "uint", "float"}, x \in {0, 5}}
    \cup {Field("Items", Value(k, <<>>, x, FALSE)) : k \in {"slice", "map"}, x \in {0, 2}}
    \cup {Field("Next", Value(k, <<>>, 0, x)) : k \in {"ptr", "interface"}, x \in BOOLEAN}

StructsOf(k) == [1..k -> FieldUniverse]

RenderedTypes == {"ProductState", "DeviceCredentials"}

Render ==
    /\ pc = "render"
    /\ pc' = "rendered"
    /\ rout' = <<printState(rin[1])>>
    /\ UNCHANGED <<gflags, model, host, cmdin, cmdargs, exitCode, handler, calls, chan,
                   sent, received, num_msg, stdout, stderr, timer, ticks, rin>>

InitRender ==
    /\ \/ \E p \in ReadingStrings, v \in ReadingStrings :
             rin = <<Message("EnvironmentState", FALSE,
                             EnvironmentState(<<"2", "9", "3", "1">>, <<"4", "5">>, p, v))>>
       \/ \E t \in RenderedTypes, k \in 0..MaxFields :
             \E b \in StructsOf(k) : rin = <<Message(t, FALSE, b)>>
    /\ rout = <<>>
    /\ pc = "render"
    /\ gflags = "ok"
    /\ model = TypeModelN475
    /\ host = <<"h">>
    /\ cmdin = "monitor"
    /\ cmdargs = <<>>
    /\ exitCode = 0
    /\ handler = "monitor"
    /\ calls = <<>>
    /\ chan = <<>>
    /\ sent = 0
    /\ received = <<>>
    /\ num_msg = 0
    /\ stdout = <<>>
    /\ stderr = <<>>
    /\ timer = "off"
    /\ ticks = 0

NextRender == Render

SpecRender == InitRender /\ [][NextRender]_vars

-----------------------------------------------------------------------------
(* Vocabulary of the properties, defined apart from the code's own parsing. *)

DecimalDigits == {"0", "1", "2", "3", "4", "5", "6", "7", "8", "9"}

Unsigned(s) == IF s # <<>> /\ s[1] \in {"+", "-"} THEN Tail(s) ELSE s

\* s is the decimal notation of an integer
IsInteger(s) ==
    /\ Unsigned(s) # <<>>
    /\ \A i \in 1..Len(Unsigned(s)) : Unsigned(s)[i] \in DecimalDigits

RECURSIVE Pow10(_)
Pow10(k) == IF k = 0 THEN 1 ELSE 10 * Pow10(k - 1)

RECURSIVE PositionalSum(_, _)
PositionalSum(b, i) ==
    IF i > Len(b) THEN 0
    ELSE DigitVal(b[i]) * Pow10(Len(b) - i) + PositionalSum(b, i + 1)

\* the integer s denotes
IntegerOf(s) ==
    IF s[1] = "-" THEN 0 - PositionalSum(Unsigned(s), 1) ELSE PositionalSum(Unsigned(s), 1)

SupportedModels == {<<"4", "7", "5">>, <<"4", "6", "9">>, <<"4", "5", "5">>}

CallsOf(op) == {i \in 1..Len(calls) : calls[i].op = op}

Connected == \E i \in CallsOf("Connect") : ~calls[i].err

\* the command line passes every check of the dispatcher that does not
\* depend on the device
StaticOk ==
    /\ cmdin \in CmdNames
    /\ cmds[cmdin].nargs = variadic \/ Len(cmdargs) >= cmds[cmdin].nargs
    /\ cmds[cmdin].connect => model \in SupportedModels /\ host # <<>>

\* C1: a handler is invoked only after every dispatcher precondition passed
\* (registered command, enough arguments, and for a connect-required command
\* a supported model, an address and a successful Connect); when one fails
\* the process exits non-zero and neither the handler nor any session
\* operation after the failure runs; discover never meets the model and
\* address checks or Connect.
C1_DispatchPreconditions ==
    /\ handler # NoCmd =>
          /\ handler = cmdin
          /\ gflags = "ok"
          /\ StaticOk
          /\ cmds[cmdin].connect => Connected
    /\ (gflags = "ok" /\ ~StaticOk) =>
          /\ handler = NoCmd
          /\ calls = <<>>
          /\ pc \in {"main", "connect", "exited"}
          /\ pc = "exited" => exitCode # 0
    /\ (\E i \in CallsOf("Connect") : calls[i].err) =>
          /\ handler = NoCmd
          /\ Len(calls) = 1
          /\ pc = "exited" /\ exitCode # 0
    /\ (gflags = "ok" /\ cmdin = "discover") =>
          /\ CallsOf("Connect") = {}
          /\ pc \notin {"main", "connect"} => handler = "discover"

C1_Witness ==
    /\ handler = "set-speed" /\ Connected /\ pc = "exited" /\ exitCode = 0
    /\ Len(cmdargs) = 2

\* the arguments a single-argument state-mutation command accepts
LegalArg(c, a) ==
    CASE c = "set-speed" -> IsInteger(a) /\ IntegerOf(a) \in 1..10
      [] c = "set-temp"  -> IsInteger(a) /\ IntegerOf(a) \in {0} \cup 33..99
      [] c = "set-fan-mode" -> a \in {<<"F", "A", "N">>, <<"O", "F", "F">>, <<"A", "U", "T", "O">>}
      [] OTHER -> a \in {<<"O", "N">>, <<"O", "F", "F">>}

\* C2: a single-argument state-mutation command whose argument is outside
\* its legal set (a non-integer included) prints an error and exits with
\* code 1, and SetState is never called in that run.
C2_IllegalArgumentRejected ==
    (/\ gflags = "ok"
     /\ cmdin \in SingleArgCmds
     /\ Len(cmdargs) >= 1
     /\ ~LegalArg(cmdin, cmdargs[1]))
    => /\ CallsOf("SetState") = {}
       /\ pc \in {"main", "connect", "handler", "exited"}
       /\ pc = "exited" => exitCode = 1 /\ stderr # <<>>

C2_Witness ==
    /\ handler = "set-speed" /\ cmdargs[1] = <<"1", "1">>
    /\ pc = "exited" /\ exitCode = 1 /\ CallsOf("SetState") = {}

\* C3: set-temp with an integer t in 33..99 submits exactly one state-delta,
\* with heat mode "HEAT" and heat target the device-scale conversion of t;
\* with 0 it submits exactly one state-delta, with heat mode "OFF" and no
\* heat target, and nothing after it.
C3_SetTempDelta ==
    (/\ handler = "set-temp"
     /\ pc = "exited"
     /\ LegalArg("set-temp", cmdargs[1]))
    => LET t == IntegerOf(cmdargs[1])
           last == calls[Len(calls)]
       IN  /\ Cardinality(CallsOf("SetState")) = 1
           /\ last.op = "SetState"
           /\ last.state["HeatMode"] = IF t = 0 THEN <<"O", "F", "F">> ELSE <<"H", "E", "A", "T">>
           /\ last.state["HeatTarget"] =
                 IF t = 0 THEN <<>> ELSE Itoa(ConvertTempFromFahr(t))

C3_Witness ==
    /\ handler = "set-temp" /\ pc = "exited" /\ exitCode = 0
    /\ cmdargs[1] = <<"9", "3">>
    /\ calls[Len(calls)].state["HeatTarget"] = <<"3", "0", "7", "0">>

-----------------------------------------------------------------------------
(* Query handlers. *)

RECURSIVE ErrorFree(_)
ErrorFree(msgs) ==
    IF msgs = <<>> THEN <<>>
    ELSE IF Head(msgs).err THEN ErrorFree(Tail(msgs))
    ELSE <<Head(msgs)>> \o ErrorFree(Tail(msgs))

NumErrors(msgs) == Cardinality({i \in 1..Len(msgs) : msgs[i].err})

HeadOf(type) ==
    CASE type = "ProductState" -> "Product State:"
      [] type = "EnvironmentState" -> "Environment State:"
      [] OTHER -> "Message"

\* stdout holds one rendering per message of msgs, in order
RenderedInOrder(msgs) ==
    /\ Len(stdout) = Len(msgs)
    /\ \A i \in 1..Len(msgs) : stdout[i].head = HeadOf(msgs[i].type)

\* C4: get-current-state issues exactly one RequestCurrentState and then
\* receives at most twice: it returns after exactly two error-free
\* messages; a message carrying an error ends the process with code 1
\* before it is rendered and before any further receive; a failed request
\* means no receive at all.
C4_GetStateReads ==
    handler = "get-current-state" =>
        LET reqs == CallsOf("RequestCurrentState") IN
        /\ Cardinality(reqs) <= 1
        /\ pc # "handler" => Cardinality(reqs) = 1
        /\ Len(received) <= 2
        /\ RenderedInOrder(ErrorFree(received))
        /\ (pc = "exited" /\ exitCode = 0) =>
              Len(received) = 2 /\ NumErrors(received) = 0
        /\ (Len(received) = 2 /\ NumErrors(received) = 0) =>
              pc = "exited" /\ exitCode = 0
        /\ \A i \in 1..Len(received) : received[i].err =>
              /\ i = Len(received)
              /\ pc = "exited" /\ exitCode = 1
        /\ (\E i \in reqs : calls[i].err) =>
              received = <<>> /\ pc = "exited" /\ exitCode = 1

C4_Witness ==
    /\ handler = "get-current-state" /\ pc = "exited" /\ exitCode = 1
    /\ Len(received) = 1 /\ received[1].err /\ stdout = <<>>

C4_WitnessTwo ==
    /\ handler = "get-current-state" /\ pc = "exited" /\ exitCode = 0
    /\ Len(received) = 2 /\ sent = 2

\* C5: when get-current-state returns successfully, a product-state and an
\* environment-state have both been rendered, whatever the device sent.
C5_BothStatesRendered ==
    (handler = "get-current-state" /\ pc = "exited" /\ exitCode = 0) =>
        /\ \E i \in 1..Len(stdout) : stdout[i].head = "Product State:"
        /\ \E i \in 1..Len(stdout) : stdout[i].head = "Environment State:"

\* C6: monitor never ends on its own: every error-free message is rendered
\* in arrival order, every message with an error is logged to the error
\* stream and not rendered, and after either the loop receives again.
C6_MonitorLoop ==
    handler = "monitor" =>
        /\ pc \in {"handler", "monitor_loop", "killed"}
        /\ RenderedInOrder(ErrorFree(received))
        /\ Len(stderr) = NumErrors(received)
        /\ (pc = "monitor_loop" /\ chan # <<>>) => ENABLED monitor_recv

C6_Witness ==
    /\ handler = "monitor" /\ pc = "monitor_loop"
    /\ Len(received) = 3 /\ received[1].err /\ ~received[2].err /\ received[3].err
    /\ Len(stdout) = 1 /\ Len(stderr) = 2

\* C7: every error of Connect, SetState or RequestCurrentState, whoever
\* issued it, ends the process with a non-zero code and is the last
\* operation of the run.
C7_EveryFailureTerminal ==
    \A i \in 1..Len(calls) :
        (calls[i].op \in {"Connect", "SetState", "RequestCurrentState"} /\ calls[i].err)
        => /\ i = Len(calls)
           /\ pc = "exited"
           /\ exitCode # 0

-----------------------------------------------------------------------------
(* Exit codes. *)

\* the command's work completed without error
WorkCompleted ==
    CASE handler = NoCmd -> FALSE
      [] handler = "discover" -> stderr = <<>>
      [] handler = "bootstrap" -> CallsOf("WifiBootstrap") # {}
      [] handler = "get-current-state" -> Len(received) = 2 /\ NumErrors(received) = 0
      [] handler = "monitor" -> FALSE
      [] OTHER -> \E i \in CallsOf("SetState") : ~calls[i].err

\* an operational error happened
OperationalError ==
    \/ ~StaticOk
    \/ cmdin \in SingleArgCmds /\ ~LegalArg(cmdin, cmdargs[1])
    \/ \E i \in 1..Len(calls) :
          /\ calls[i].op \in {"Connect", "SetState", "RequestCurrentState"}
          /\ calls[i].by = "main"
          /\ calls[i].err
    \/ handler = "get-current-state" /\ NumErrors(received) > 0

\* bootstrap's sub-flags are malformed, or ssid or key is empty
BootstrapFlagsRejected ==
    /\ handler = "bootstrap"
    /\ LET p == fsetParse(cmdargs, <<>>, <<>>)
       IN  p.res = "error" \/ (p.res = "ok" /\ (p.ssid = <<>> \/ p.key = <<>>))

AfterConnectInBootstrap ==
    /\ handler = "bootstrap"
    /\ model \in SupportedModels
    /\ host # <<>>
    /\ Connected

\* C8 as stated: the exit code is 0 when the work completes, 1 on every
\* operational error, 2 when bootstrap rejects its sub-flags, and code 2 comes
\* only from bootstrap, after the model and address checks and Connect.
C8_ExitCodeOnlyBootstrapTwo ==
    pc = "exited" =>
        /\ WorkCompleted => exitCode = 0
        /\ OperationalError => exitCode = 1
        /\ BootstrapFlagsRejected => exitCode = 2
        /\ exitCode = 2 => AfterConnectInBootstrap

\* C8, amended: once the global flags parsed, the exit code is 0 when the
\* work completes, 1 on every operational error and 2 when bootstrap rejects
\* its sub-flags; code 2 comes only from flag parsing: from main's parse of
\* the global flags, before anything else ran, or from bootstrap, after the
\* model and address checks and Connect.
C8_ExitCodeByOutcome ==
    pc = "exited" =>
        /\ gflags = "ok" =>
              /\ WorkCompleted => exitCode = 0
              /\ OperationalError => exitCode = 1
              /\ BootstrapFlagsRejected => exitCode = 2
        /\ exitCode \in {0, 1, 2}
        /\ exitCode = 2 =>
              \/ gflags # "ok" /\ handler = NoCmd /\ calls = <<>>
              \/ AfterConnectInBootstrap

C8_Witness ==
    /\ pc = "exited" /\ exitCode = 2 /\ gflags = "bad" /\ handler = NoCmd

-----------------------------------------------------------------------------
(* Renderer. *)

\* a raw sensor reading as a number: 0 when absent or not a number
ReadingOf(s) == IF IsInteger(s) THEN IntegerOf(s) ELSE 0

LabelOf(est) ==
    IF est <= 3 THEN "good"
    ELSE IF est <= 6 THEN "fair"
    ELSE IF est <= 8 THEN "poor"
    ELSE "very poor"

\* C9: the air-quality label of an environment-state is that of the larger
\* of its VOC and particle readings, a reading that is absent or not a
\* number counting as 0: "good" up to 3, "fair" for 4..6, "poor" for 7..8,
\* "very poor" above 8.
C9_AirQualityLabel ==
    (rout # <<>> /\ rin[1].type = "EnvironmentState") =>
        LET voc  == ReadingOf(FieldString(rin[1].body, "UnknownVact"))
            part == ReadingOf(FieldString(rin[1].body, "Particle"))
            est  == IF voc >= part THEN voc ELSE part
        IN  /\ rout[1].quality = <<LabelOf(est)>>
            /\ est = 3 => rout[1].quality = <<"good">>
            /\ est \in {4, 6} => rout[1].quality = <<"fair">>
            /\ est \in {7, 8} => rout[1].quality = <<"poor">>
            /\ est = 9 => rout[1].quality = <<"very poor">>

C9_Witness ==
    /\ rout # <<>> /\ rin[1].type = "EnvironmentState"
    /\ FieldString(rin[1].body, "UnknownVact") = <<"7">>
    /\ FieldString(rin[1].body, "Particle") = <<"-">>
    /\ rout[1].quality = <<"poor">>

\* v holds the zero value of its type
IsZero(v) ==
    CASE v.kind = "string" -> v.s = <<>>
      [] v.kind = "bool" -> v.b = FALSE
      [] v.kind \in {"ptr", "interface"} -> v.b
      [] OTHER -> v.n = 0

RECURSIVE Reported(_)
Reported(fields) ==
    IF fields = <<>> THEN <<>>
    ELSE IF IsZero(Head(fields).v) THEN Reported(Tail(fields))
    ELSE <<Head(fields)>> \o Reported(Tail(fields))

Abs(x) == IF x >= 0 THEN x ELSE 0 - x

\* C10: printStruct prints one line per field that does not hold its
\* type's zero value, in field order, and none for the others; a filter
\* life that is a number is printed as the nearest whole percentage of the
\* fixed maximum 4300, which is not zero, whatever the counter (0 and
\* values above the maximum included), and one that is not a number is
\* printed raw.
C10_RendererLines ==
    rout # <<>> =>
        LET fields == Reported(rin[1].body)
            lines  == rout[1].lines
        IN  /\ Len(lines) = Len(fields)
            /\ \A i \in 1..Len(fields) :
                  /\ lines[i].name =
                        IF fields[i].name = "UnknownVact" THEN "VOC" ELSE fields[i].name
                  /\ fields[i].name = "FilterLife" =>
                        IF IsInteger(fields[i].v.s)
                        THEN /\ lines[i].fmt = "percent"
                             /\ 2 * Abs(lines[i].n * 4300 - 100 * IntegerOf(fields[i].v.s))
                                   <= 4300
                        ELSE lines[i].fmt = "raw" /\ lines[i].v = fields[i].v
            /\ MaxFilterLife # 0

C10_Witness ==
    /\ rout # <<>> /\ Len(rin[1].body) = 2
    /\ rin[1].body[1] = Field("FanMode", StrV(<<>>))
    /\ rin[1].body[2] = Field("FilterLife", StrV(<<"8", "6", "0", "0">>))
    /\ rout[1].lines = <<Line("FilterLife", "percent", StrV(<<"8", "6", "0", "0">>), 200)>>

C10_WitnessZero ==
    /\ rout # <<>> /\ Len(rin[1].body) = 1
    /\ rin[1].body[1] = Field("FilterLife", StrV(<<"0">>))
    /\ rout[1].lines = <<Line("FilterLife", "percent", StrV(<<"0">>), 0)>>

-----------------------------------------------------------------------------
(* C11 *)

\* the fields a command's delta may fill
DeltaFields(c) ==
    CASE c = "set-fan-mode" -> {"FanMode"}
      [] c = "set-speed" -> {"FanSpeed"}
      [] c = "set-oscillate" -> {"Oscillate"}
      [] c = "set-monitor" -> {"StandbyMonitoring"}
      [] c = "set-focused-mode" -> {"FocusedMode"}
      [] c = "reset-filter" -> {"ResetFilter"}
      [] c = "set-temp" -> {"HeatMode", "HeatTarget"}
      [] OTHER -> {}

NonMutating == {"discover", "bootstrap", "get-current-state", "monitor"}

\* the fields of a delta that carry a value
Filled(s) == {f \in FanStateFields : s[f] # <<>>}

\* C11: a run submits at most one SetState; the submitted delta fills only
\* the fields of the invoked command's change (for set-temp HeatMode, and
\* HeatTarget only together with HeatMode = HEAT) and leaves every other
\* field empty; discover, bootstrap, get-current-state and monitor never
\* call SetState.
C11_StateDelta ==
    /\ Cardinality(CallsOf("SetState")) <= 1
    /\ \A i \in CallsOf("SetState") :
        LET s == calls[i].state IN
        /\ handler \notin NonMutating
        /\ Filled(s) # {}
        /\ Filled(s) \subseteq DeltaFields(handler)
        /\ handler # "set-temp" => Filled(s) = DeltaFields(handler)
        /\ handler = "set-temp" =>
              /\ "HeatMode" \in Filled(s)
              /\ "HeatTarget" \in Filled(s) <=> s["HeatMode"] = HeatOn

\* set-temp 0 has submitted a delta that fills HeatMode alone
C11_Witness ==
    /\ pc = "exited" /\ handler = "set-temp" /\ cmdargs = <<<<"0">>>>
    /\ Cardinality(CallsOf("SetState")) = 1
    /\ \E i \in CallsOf("SetState") :
        /\ calls[i].state["HeatMode"] = HeatOff
        /\ Filled(calls[i].state) = {"HeatMode"}

\* a query command has run to its end without a SetState
C11_WitnessQuery ==
    /\ pc = "exited" /\ exitCode = 0 /\ handler = "get-current-state"
    /\ CallsOf("SetState") = {} /\ calls # <<>>

-----------------------------------------------------------------------------
(* C12 *)

\* a step that takes a message off the callback channel
Takes == chan # <<>> /\ chan' = <<>>

\* a step of the handler's receive loop
LoopStep == getState_recv \/ monitor_recv

\* a step of monitor's timer goroutine
TimerStep == ticks' # ticks

\* C12: the callback channel has one consumer per run.  A message leaves
\* the channel, or joins the messages read, only by a step of the running
\* handler's receive loop (getState's or monitor's, never both in one run),
\* which takes exactly the offered message; a step of monitor's timer
\* goroutine issues one RequestCurrentState and neither takes from the
\* channel nor adds to the messages read.
C12_SingleConsumer ==
    [][/\ (Takes \/ received' # received) =>
            /\ LoopStep
            /\ ~TimerStep
            /\ handler \in Readers
            /\ pc = IF handler = "monitor" THEN "monitor_loop" ELSE "getState_recv"
            /\ received' = Append(received, Head(chan))
            /\ chan' = <<>>
       /\ TimerStep =>
            /\ handler = "monitor"
            /\ calls' = Append(calls, calls'[Len(calls')])
            /\ calls'[Len(calls')].op = "RequestCurrentState"
            /\ calls'[Len(calls')].by = "timer"
            /\ UNCHANGED <<chan, received, pc>>
       /\ \A i \in 1..Len(calls') :
            calls'[i].by = "timer" => calls'[i].op = "RequestCurrentState"]_vars

\* under monitor the timer has fired while a message was on offer, and the
\* loop has read every message the session sent
C12_Witness ==
    /\ handler = "monitor" /\ pc = "monitor_loop"
    /\ ticks = MaxTicks
    /\ sent >= 2 /\ Len(received) = sent /\ chan = <<>>
    /\ \E i \in CallsOf("RequestCurrentState") : i < Len(calls) /\ calls[i].by = "timer"

-----------------------------------------------------------------------------
(* C13 *)

\* a step of the program itself: not the session's, not the user's
ProgramStep == Next /\ ~(DeviceSend \/ Kill)

\* getState's request was sent
RequestSent ==
    \E i \in CallsOf("RequestCurrentState") : calls[i].by = "main" /\ ~calls[i].err

\* getState is between its request and its return
Awaiting == handler = "get-current-state" /\ pc = "getState_recv"

\* the messages that end getState: two without error, or one with an error
Delivered == Len(ErrorFree(received)) = 2 \/ NumErrors(received) > 0

\* what holds of every state of a get-current-state run whose request was sent
C13_State ==
    (handler = "get-current-state" /\ RequestSent) =>
        /\ pc \in {"getState_recv", "exited", "killed"}
        /\ pc = "exited" <=> Delivered
        /\ (pc = "getState_recv" /\ chan = <<>>) => ~ENABLED ProgramStep
        /\ (pc = "getState_recv" /\ chan # <<>>) => ENABLED getState_recv

\* C13: get-current-state has no timeout.  Once its request was sent it has
\* ended exactly when two error-free messages or a message with an error
\* were received; while fewer were received and none is on offer no step of
\* the program is possible, and the wait is left only by a receive (or by
\* the user ending the process); if the session keeps delivering, the
\* handler eventually ends.
C13_NoTimeout ==
    /\ []C13_State
    /\ [][(Awaiting /\ pc' # pc) => (getState_recv \/ Kill)]_vars
    /\ Awaiting ~> (pc \in {"exited", "killed"})

\* blocked with one error-free message read and nothing on offer
C13_Witness ==
    /\ Awaiting /\ chan = <<>>
    /\ sent = 1 /\ Len(received) = 1 /\ NumErrors(received) = 0

\* ended by an error in the second message
C13_WitnessError ==
    /\ handler = "get-current-state" /\ pc = "exited" /\ exitCode = 1
    /\ Len(received) = 2 /\ ~received[1].err /\ received[2].err

====
